---------------------------- MODULE Spec2Model ----------------------------
(***************************************************************************)
(* Model of the disrepair-analysis repository: the overlap aggregator      *)
(* calculateDisrepairOverlap (src/calculator.js) and the callers that      *)
(* invoke it.                                                              *)
(*                                                                         *)
(* Representation.                                                         *)
(*  - A JavaScript string is a sequence of one-character strings.          *)
(*  - A Date is its time value in whole days since 1970-01-01 (the code    *)
(*    only builds dates from date-only strings, which parse to UTC         *)
(*    midnight, and steps them with setDate(getDate() + 1)); an Invalid    *)
(*    Date is NaN.  The input dates lie in one January, where no time zone *)
(*    changes its offset, so a step of one local day is a step of 24h.     *)
(*  - weeks (days / 7.0) are kept exactly, as a whole number of            *)
(*    seventieths of a week (a day is 10 of them, a tenth of a week 7); a  *)
(*    number printed by toFixed(1) is kept as its number of tenths.  The   *)
(*    doubles the code adds differ from these by less than 1e-12, and no   *)
(*    n/7 is within 1/140 of a rounding tie, so toFixed(1) agrees.         *)
(***************************************************************************)
EXTENDS Integers, Sequences, FiniteSets, TLC

(***************************************************************************)
(* Bounds of the model.                                                    *)
(***************************************************************************)
MaxPeriods == 2
MaxDay == 3
MaxTotalRooms == 3
NumReqs == 2
MaxExampleDay == 15
ExtraArrivals == 5
MaxTicks == 2
MaxParts == 3
MaxDegenerate == 2

Rooms == {"Kitchen", "Bathroom"}

(***************************************************************************)
(* Strings and numbers.                                                    *)
(***************************************************************************)
Digits == <<"0", "1", "2", "3", "4", "5", "6", "7", "8", "9">>

IsDigit(c) == \E i \in 1..10 : Digits[i] = c

DigitVal(c) == (CHOOSE i \in 1..10 : Digits[i] = c) - 1

\* String(n) for an integer n >= 0.
RECURSIVE NumberToString(_)
NumberToString(n) ==
  IF n < 10 THEN <<Digits[n + 1]>>
  ELSE NumberToString(n \div 10) \o <<Digits[(n % 10) + 1]>>

\* The value of a string of digits.
RECURSIVE DigitsValue(_)
DigitsValue(s) ==
  IF s = <<>> THEN 0
  ELSE 10 * DigitsValue(SubSeq(s, 1, Len(s) - 1)) + DigitVal(s[Len(s)])

\* The time value of an Invalid Date, and the result of arithmetic on it.
NaN == -1

\* parseInt(s, 10): the value of the leading digits of s, NaN without one.
RECURSIVE LeadingDigits(_)
LeadingDigits(s) ==
  IF s = <<>> \/ ~IsDigit(Head(s)) THEN <<>>
  ELSE <<Head(s)>> \o LeadingDigits(Tail(s))

parseInt(s) ==
  IF LeadingDigits(s) = <<>> THEN NaN ELSE DigitsValue(LeadingDigits(s))

\* s.padStart(2, '0')
padStart(s) ==
  IF Len(s) >= 2 THEN s
  ELSE IF Len(s) = 1 THEN <<"0">> \o s
  ELSE <<"0", "0">>

\* s.split('/')
RECURSIVE SplitFrom(_, _, _)
SplitFrom(s, i, cur) ==
  IF i > Len(s) THEN <<cur>>
  ELSE IF s[i] = "/" THEN <<cur>> \o SplitFrom(s, i + 1, <<>>)
  ELSE SplitFrom(s, i + 1, Append(cur, s[i]))

split(s) == SplitFrom(s, 1, <<>>)

\* /^\d{4}-\d{2}-\d{2}$/.test(s)
IsIsoForm(s) ==
  /\ Len(s) = 10
  /\ \A i \in {1, 2, 3, 4, 6, 7, 9, 10} : IsDigit(s[i])
  /\ s[5] = "-"
  /\ s[8] = "-"

formatDateForProcessing(dateStr) ==
  IF IsIsoForm(dateStr) THEN dateStr
  ELSE LET parts == split(dateStr) IN
       IF Len(parts) = 3
       THEN LET day == padStart(parts[1])
                month == padStart(parts[2])
                year == parts[3]
            IN year \o <<"-">> \o month \o <<"-">> \o day
       ELSE dateStr

(***************************************************************************)
(* new Date(string) for a date-only string, in days since 1970-01-01.      *)
(***************************************************************************)
IsLeap(y) == (y % 4 = 0 /\ y % 100 # 0) \/ y % 400 = 0

DaysInMonth(y, m) ==
  IF m = 2 THEN (IF IsLeap(y) THEN 29 ELSE 28)
  ELSE IF m \in {4, 6, 9, 11} THEN 30 ELSE 31

RECURSIVE DaysBeforeMonth(_, _)
DaysBeforeMonth(y, m) ==
  IF m = 1 THEN 0 ELSE DaysBeforeMonth(y, m - 1) + DaysInMonth(y, m - 1)

LeapsBefore(y) == ((y - 1) \div 4) - ((y - 1) \div 100) + ((y - 1) \div 400)

EpochDay(y, m, d) ==
  365 * (y - 1970) + (LeapsBefore(y) - LeapsBefore(1970))
    + DaysBeforeMonth(y, m) + (d - 1)

\* A string that is no year-month-day date is an Invalid Date.
NewDate(s) ==
  IF ~IsIsoForm(s) THEN NaN
  ELSE LET y == DigitsValue(SubSeq(s, 1, 4))
           m == DigitsValue(SubSeq(s, 6, 7))
           d == DigitsValue(SubSeq(s, 9, 10))
       IN IF m \in 1..12 /\ d >= 1 /\ d <= DaysInMonth(y, m)
          THEN EpochDay(y, m, d)
          ELSE NaN

\* a <= b on time values: every comparison with NaN is false.
Le(a, b) == a # NaN /\ b # NaN /\ a <= b

\* The bug "Math.min over the valid dates only": NaN arguments are skipped.
MathMinOfValid(xs) ==
  IF \A i \in 1..Len(xs) : xs[i] = NaN THEN NaN
  ELSE CHOOSE v \in {xs[i] : i \in 1..Len(xs)} \ {NaN} :
         \A i \in 1..Len(xs) : xs[i] = NaN \/ v <= xs[i]

\* new Date(Math.min(...xs)): Math.min() of nothing is Infinity, and a NaN
\* argument makes the result NaN; both give an Invalid Date.
MathMin(xs) ==
  IF xs = <<>> \/ \E i \in 1..Len(xs) : xs[i] = NaN THEN NaN
  ELSE CHOOSE v \in {xs[i] : i \in 1..Len(xs)} :
         \A i \in 1..Len(xs) : v <= xs[i]

MathMax(xs) ==
  IF xs = <<>> \/ \E i \in 1..Len(xs) : xs[i] = NaN THEN NaN
  ELSE CHOOSE v \in {xs[i] : i \in 1..Len(xs)} :
         \A i \in 1..Len(xs) : v >= xs[i]

(***************************************************************************)
(* The input of one call: the wire form of the periods and the totalRooms  *)
(* argument.  Day d of January 2025 is written in one of the three forms   *)
(* the normaliser accepts: "d/1/2025", "0d/01/2025" and "2025-01-0d".      *)
(***************************************************************************)
Year == <<"2", "0", "2", "5">>

DateString(d) ==
  IF d % 3 = 1 THEN NumberToString(d) \o <<"/", "1", "/">> \o Year
  ELSE IF d % 3 = 2
       THEN padStart(NumberToString(d)) \o <<"/", "0", "1", "/">> \o Year
       ELSE Year \o <<"-", "0", "1", "-">> \o padStart(NumberToString(d))

DateStrings == {DateString(d) : d \in 1..MaxDay}

Periods ==
  [roomName : Rooms, startDate : DateStrings, endDate : DateStrings]

PeriodLists == UNION {[1..n -> Periods] : n \in 0..MaxPeriods}

\* 0 stands for every falsy argument: omitted (the default null), null, 0.
TotalRoomsArgs == 0..MaxTotalRooms

(***************************************************************************)
(* State: the arguments and the locals of the latest call of               *)
(* calculateDisrepairOverlap, and the requests being handled.              *)
(***************************************************************************)
VARIABLES periods, totalRoomsArg, totalRooms, processedPeriods, minDate,
          maxDate, timeline, groupedPeriods, roomCountTotals, results, pc,
          reqs,
          \* the deployed revisions of rate-limiter.js and middleware.js
          limiterRev, authRev,
          \* process.env.CLIENT_API_KEYS
          env,
          \* Date.now(), in milliseconds
          now,
          \* the rate limiter's module-level stores
          ipLimits, apiKeyLimits,
          \* the request being handled and its response
          req, res,
          \* history: arrival times of the requests the rate limiter let
          \* through, and how many clock steps and arrivals there were
          allowedAt, ticks, arrivals,
          \* the argument of a direct call of formatDateForProcessing, its
          \* result, and the result of formatting that again
          dateStr, formatted, reformatted

vars == <<periods, totalRoomsArg, totalRooms, processedPeriods, minDate,
          maxDate, timeline, groupedPeriods, roomCountTotals, results, pc,
          reqs, limiterRev, authRev, env, now, ipLimits, apiKeyLimits, req,
          res, allowedAt, ticks, arrivals, dateStr, formatted, reformatted>>

formatVars == <<dateStr, formatted, reformatted>>

serverVars == <<limiterRev, authRev, env, now, ipLimits, apiKeyLimits, req,
                res, allowedAt, ticks, arrivals>>

callVars == <<periods, totalRoomsArg, totalRooms, processedPeriods, minDate,
              maxDate, timeline, groupedPeriods, roomCountTotals, results>>

(***************************************************************************)
(* calculateDisrepairOverlap, step by step.                                *)
(***************************************************************************)
uniqueRooms(ps) ==
  {ps[i].roomName : i \in {j \in 1..Len(ps) : ps[j].roomName # ""}}

\* The bug "fall back to the number of periods" (rooms counted twice).
ResolveToPeriodCount(ps, t) == IF t = 0 \/ t <= 0 THEN Len(ps) ELSE t

\* The bug "only a missing or zero totalRooms falls back".
ResolveOnlyZero(ps, t) == IF t = 0 THEN Cardinality(uniqueRooms(ps)) ELSE t

ResolveTotalRooms(ps, t) ==
  IF t = 0 \/ t <= 0 THEN Cardinality(uniqueRooms(ps)) ELSE t

\* periods.map(period => ({...period, startDate: new Date(...), ...}))
ProcessPeriod(period) ==
  [roomName |-> period.roomName,
   startDate |-> NewDate(formatDateForProcessing(period.startDate)),
   endDate |-> NewDate(formatDateForProcessing(period.endDate))]

RECURSIVE ProcessPeriods(_)
ProcessPeriods(ps) ==
  IF ps = <<>> THEN <<>>
  ELSE <<ProcessPeriod(Head(ps))>> \o ProcessPeriods(Tail(ps))

\* The bug "the range starts at the first period's start".
MinDateOfFirst(pp) == IF pp = <<>> THEN NaN ELSE pp[1].startDate

MinDate(pp) == MathMin([i \in 1..Len(pp) |-> pp[i].startDate])

MaxDate(pp) == MathMax([i \in 1..Len(pp) |-> pp[i].endDate])

\* The bug "timeline is a module-level array": it keeps the last call's days.
StaleTimeline == timeline

\* const timeline = []
NewTimeline == <<>>

\* The bug "currentDate < maxDate": the last day is left out.
RECURSIVE TimelineLoopExclusive(_, _, _)
TimelineLoopExclusive(tl, currentDate, mx) ==
  IF Le(currentDate, mx) /\ currentDate # mx
  THEN TimelineLoopExclusive(
         Append(tl, [date |-> currentDate, roomCount |-> 0]),
         currentDate + 1, mx)
  ELSE tl

\* while (currentDate <= maxDate) { push; currentDate.setDate(+1) }
RECURSIVE TimelineLoop(_, _, _)
TimelineLoop(tl, currentDate, mx) ==
  IF Le(currentDate, mx)
  THEN TimelineLoop(Append(tl, [date |-> currentDate, roomCount |-> 0]),
                    currentDate + 1, mx)
  ELSE tl

\* The bug "day.date < period.endDate": the end day is not counted.
CoversExclusiveEnd(period, date) ==
  Le(period.startDate, date) /\ Le(date, period.endDate)
    /\ date # period.endDate

Covers(period, date) ==
  Le(period.startDate, date) /\ Le(date, period.endDate)

\* The bug "every day starts at roomCount 1".
CountRoomsFromOne(tl, pp) ==
  [i \in 1..Len(tl) |->
     [date |-> tl[i].date,
      roomCount |-> 1 + Cardinality(
         {j \in 1..Len(pp) :
            Le(pp[j].startDate, tl[i].date)
              /\ Le(tl[i].date, pp[j].endDate)})]]

CountRooms(tl, pp) ==
  [i \in 1..Len(tl) |->
     [date |-> tl[i].date,
      roomCount |-> tl[i].roomCount
         + Cardinality({j \in 1..Len(pp) : Covers(pp[j], tl[i].date)})]]

\* The bug "a new group every day": equal neighbours are never merged.
RECURSIVE GroupLoopNoMerge(_, _, _, _)
GroupLoopNoMerge(tl, i, currentGroup, grouped) ==
  IF i > Len(tl) THEN grouped
  ELSE GroupLoopNoMerge(tl, i + 1, currentGroup,
         Append(grouped, [startDate |-> tl[i].date, endDate |-> tl[i].date,
                          roomCount |-> tl[i].roomCount]))

\* The grouping loop; currentGroup is <<>> for null, else <<group>>.
RECURSIVE GroupLoop(_, _, _, _)
GroupLoop(tl, i, currentGroup, grouped) ==
  IF i > Len(tl)
  THEN IF currentGroup # <<>> THEN grouped \o currentGroup ELSE grouped
  ELSE IF currentGroup = <<>> \/ currentGroup[1].roomCount # tl[i].roomCount
       THEN GroupLoop(tl, i + 1,
                      <<[startDate |-> tl[i].date, endDate |-> tl[i].date,
                         roomCount |-> tl[i].roomCount]>>,
                      IF currentGroup # <<>> THEN grouped \o currentGroup
                      ELSE grouped)
       ELSE GroupLoop(tl, i + 1,
                      <<[currentGroup[1] EXCEPT !.endDate = tl[i].date]>>,
                      grouped)

GroupDays(tl) == GroupLoop(tl, 1, <<>>, <<>>)

\* days = (endDate - startDate) / (1000 * 60 * 60 * 24) + 1
SegmentDays(segment) == (segment.endDate - segment.startDate) + 1

\* The bug "round each segment's weeks before adding them".
SegmentWeeksRounded(segment) ==
  7 * ((20 * SegmentDays(segment) + 7) \div 14)

\* weeks = days / 7.0, in seventieths of a week.
SegmentWeeks(segment) == 10 * SegmentDays(segment)

\* The bug "no roomCount > 0 test": empty stretches get a row too.
RECURSIVE TotalsLoopWithZero(_, _, _)
TotalsLoopWithZero(grouped, i, totals) ==
  IF i > Len(grouped) THEN totals
  ELSE LET key == NumberToString(grouped[i].roomCount)
           weeks == 10 * SegmentDays(grouped[i])
       IN TotalsLoopWithZero(grouped, i + 1,
            [k \in (DOMAIN totals) \cup {key} |->
               IF k = key
               THEN (IF key \in DOMAIN totals THEN totals[key] ELSE 0) + weeks
               ELSE totals[k]])

\* roomCountTotals: a function from the property keys (strings) to weeks.
RECURSIVE TotalsLoop(_, _, _)
TotalsLoop(grouped, i, totals) ==
  IF i > Len(grouped) THEN totals
  ELSE LET roomCount == grouped[i].roomCount
           key == NumberToString(roomCount)
           weeks == SegmentWeeks(grouped[i])
       IN IF roomCount > 0
          THEN IF key \in DOMAIN totals /\ totals[key] # 0
               THEN TotalsLoop(grouped, i + 1,
                               [totals EXCEPT ![key] = @ + weeks])
               ELSE TotalsLoop(grouped, i + 1,
                               [k \in (DOMAIN totals) \cup {key} |->
                                  IF k = key THEN weeks ELSE totals[k]])
          ELSE TotalsLoop(grouped, i + 1, totals)

RoomCountTotals(grouped) == TotalsLoop(grouped, 1, <<>>)

\* Object.entries: integer keys come in ascending numeric order.
RECURSIVE KeysInOrder(_)
KeysInOrder(keys) ==
  IF keys = {} THEN <<>>
  ELSE LET k == CHOOSE x \in keys :
                  \A y \in keys : parseInt(x) <= parseInt(y)
       IN <<k>> \o KeysInOrder(keys \ {k})

ObjectEntries(totals) == KeysInOrder(DOMAIN totals)

\* parseFloat((num / den).toFixed(1)), in tenths (num >= 0, den > 0).
ToFixed1(num, den) == (20 * num + den) \div (2 * den)

\* The bug "the percentage is cut, not rounded, to one decimal".
FormatRowTruncated(roomCount, weeks, total) ==
  [roomCount |-> parseInt(roomCount),
   weeksInDisrepair |-> (20 * weeks + 70) \div 140,
   percentageOfProperty |-> (parseInt(roomCount) * 1000) \div total]

FormatRow(roomCount, weeks, total) ==
  LET count == parseInt(roomCount) IN
  [roomCount |-> count,
   weeksInDisrepair |-> ToFixed1(weeks, 70),
   percentageOfProperty |-> ToFixed1(count * 100, total)]

FormatResults(totals, total) ==
  LET entries == ObjectEntries(totals) IN
  [i \in 1..Len(entries) |-> FormatRow(entries[i], totals[entries[i]], total)]

\* The bug "b.roomCount - a.roomCount": descending order.
CompareDescending(a, b) == b.roomCount - a.roomCount

\* results.sort((a, b) => a.roomCount - b.roomCount), a stable sort.
Compare(a, b) == a.roomCount - b.roomCount

RECURSIVE InsertRow(_, _)
InsertRow(sorted, row) ==
  IF sorted = <<>> THEN <<row>>
  ELSE IF Compare(sorted[Len(sorted)], row) <= 0 THEN Append(sorted, row)
  ELSE Append(InsertRow(SubSeq(sorted, 1, Len(sorted) - 1), row),
              sorted[Len(sorted)])

RECURSIVE SortRows(_)
SortRows(rows) ==
  IF rows = <<>> THEN <<>>
  ELSE InsertRow(SortRows(SubSeq(rows, 1, Len(rows) - 1)), rows[Len(rows)])

\* The locals of one call of calculateDisrepairOverlap(ps, t), each built
\* from the ones before it as the function's body does.
CallLocals(ps, t) ==
  LET total == ResolveTotalRooms(ps, t)
      pp == ProcessPeriods(ps)
      mn == MinDate(pp)
      mx == MaxDate(pp)
      tl == CountRooms(TimelineLoop(NewTimeline, mn, mx), pp)
      grouped == GroupDays(tl)
      totals == RoomCountTotals(grouped)
  IN [totalRooms |-> total, processedPeriods |-> pp, minDate |-> mn,
      maxDate |-> mx, timeline |-> tl, groupedPeriods |-> grouped,
      roomCountTotals |-> totals,
      results |-> SortRows(FormatResults(totals, total))]

\* One call of calculateDisrepairOverlap(ps, t): every local is rebuilt.
calculateDisrepairOverlap(ps, t) ==
  \E c \in {CallLocals(ps, t)} :
    /\ periods' = ps
    /\ totalRoomsArg' = t
    /\ totalRooms' = c.totalRooms
    /\ processedPeriods' = c.processedPeriods
    /\ minDate' = c.minDate
    /\ maxDate' = c.maxDate
    /\ timeline' = c.timeline
    /\ groupedPeriods' = c.groupedPeriods
    /\ roomCountTotals' = c.roomCountTotals
    /\ results' = c.results

(***************************************************************************)
(* The handler of api/calculate-disrepair.js for POST requests.  A request *)
(* is suspended at the handler's awaits (the middleware is taken to call   *)
(* next) and resumed later, so the synchronous rest of the handlers of     *)
(* several requests can run in any order.                                  *)
(*                                                                         *)
(* A body is [periods, totalRooms, rooms]: totalRooms a JSON value,        *)
(* rooms <<>> when absent and <<list>> when given.  A request is           *)
(* [pc, body, args, status, results, between]: args is the argument list   *)
(* of its call of calculateDisrepairOverlap (<<>> before the call) and     *)
(* between records that a call with other arguments ran after its own.     *)
(***************************************************************************)
MenuPeriod(room, a, b) ==
  [roomName |-> room, startDate |-> DateString(a), endDate |-> DateString(b)]

\* The JSON value of body.totalRooms: its kind and, for a number, the
\* text String(n) of it; for a string, the string.
JsonUndefined == [kind |-> "undefined", text |-> <<>>]

JsonNumber(text) == [kind |-> "number", text |-> text]

JsonString(text) == [kind |-> "string", text |-> text]

\* Numeric texts are [-]digits[.digits] with at least one digit.
Unsigned(text) ==
  IF text # <<>> /\ Head(text) = "-" THEN Tail(text) ELSE text

IntegerPart(text) == LeadingDigits(Unsigned(text))

AfterInteger(text) ==
  SubSeq(Unsigned(text), Len(IntegerPart(text)) + 1, Len(Unsigned(text)))

FractionPart(text) ==
  IF AfterInteger(text) # <<>> /\ Head(AfterInteger(text)) = "."
  THEN Tail(AfterInteger(text)) ELSE <<>>

IsNumeric(text) ==
  /\ \/ AfterInteger(text) = <<>>
     \/ /\ Head(AfterInteger(text)) = "."
        /\ \A i \in 1..Len(FractionPart(text)) :
             IsDigit(FractionPart(text)[i])
  /\ IntegerPart(text) \o FractionPart(text) # <<>>

IsZero(text) ==
  \A i \in 1..Len(IntegerPart(text) \o FractionPart(text)) :
    (IntegerPart(text) \o FractionPart(text))[i] = "0"

\* The value as a condition: 0 and "" are falsy, as is undefined.
Truthy(v) ==
  CASE v.kind = "number" -> ~IsZero(v.text)
    [] v.kind = "string" -> v.text # <<>>
    [] OTHER -> FALSE

\* isNaN(v): Number(undefined) and Number of a non-numeric string are NaN,
\* Number("") is 0.
isNaN(v) ==
  \/ v.kind = "undefined"
  \/ v.text # <<>> /\ ~IsNumeric(v.text)

\* v > 0
GreaterThanZero(v) ==
  /\ ~isNaN(v)
  /\ v.text # <<>>
  /\ Head(v.text) # "-"
  /\ ~IsZero(v.text)

EmptyBody == [periods |-> <<>>, totalRooms |-> JsonUndefined, rooms |-> <<>>]

BodyMenu ==
  {[periods |-> <<MenuPeriod("Kitchen", 1, d)>>,
    totalRooms |-> JsonUndefined, rooms |-> <<>>] : d \in 1..MaxDay}
  \cup
  {[periods |-> <<MenuPeriod("Kitchen", 1, d),
                  MenuPeriod("Bathroom", d, MaxDay)>>,
    totalRooms |-> JsonNumber(NumberToString(MaxTotalRooms)),
    rooms |-> <<>>] : d \in 1..MaxDay}
  \cup
  {[periods |-> <<MenuPeriod("Kitchen", 1, MaxDay)>>,
    totalRooms |-> JsonNumber(<<"1">>),
    rooms |-> << <<"Kitchen", "Bathroom">> >>],
   EmptyBody}

IdleRequest ==
  [pc |-> "idle", body |-> EmptyBody, args |-> <<>>, status |-> 0,
   results |-> <<>>, between |-> FALSE]

\* The two validation tests of the body.
ValidBody(body) ==
  /\ body.periods # <<>>
  /\ \A i \in 1..Len(body.periods) :
       /\ body.periods[i].roomName # ""
       /\ body.periods[i].startDate # <<>>
       /\ body.periods[i].endDate # <<>>

\* The bug "totalRooms is looked at before the rooms list".
EffectiveTotalRoomsNumberFirst(body) ==
  IF /\ Truthy(body.totalRooms)
     /\ ~isNaN(body.totalRooms)
     /\ GreaterThanZero(body.totalRooms)
  THEN parseInt(body.totalRooms.text)
  ELSE IF body.rooms # <<>> THEN Len(body.rooms[1])
  ELSE Cardinality(uniqueRooms(body.periods))

\* effectiveTotalRooms; parseInt(totalRooms, 10) reads String(totalRooms).
EffectiveTotalRooms(body) ==
  IF body.rooms # <<>> THEN Len(body.rooms[1])
  ELSE IF /\ Truthy(body.totalRooms)
          /\ ~isNaN(body.totalRooms)
          /\ GreaterThanZero(body.totalRooms)
  THEN parseInt(body.totalRooms.text)
  ELSE Cardinality(uniqueRooms(body.periods))

\* The handler runs up to its first await.
Receive(r) ==
  /\ reqs[r].pc = "idle"
  /\ \E body \in BodyMenu :
       reqs' = [reqs EXCEPT ![r] = [IdleRequest EXCEPT !.pc = "await",
                                                       !.body = body]]
  /\ UNCHANGED <<callVars, pc, serverVars, formatVars>>

\* The handler resumes and answers 400: the aggregator is not called.
Reject(r) ==
  /\ reqs[r].pc = "await"
  /\ ~ValidBody(reqs[r].body)
  /\ reqs' = [reqs EXCEPT ![r].pc = "done", ![r].status = 400]
  /\ UNCHANGED <<callVars, pc, serverVars, formatVars>>

\* The handler resumes, calls the aggregator and answers 200 with its rows.
Calculate(r) ==
  /\ reqs[r].pc = "await"
  /\ ValidBody(reqs[r].body)
  /\ LET ps == reqs[r].body.periods
         t == EffectiveTotalRooms(reqs[r].body)
     IN /\ calculateDisrepairOverlap(ps, t)
        /\ reqs' = [q \in 1..NumReqs |->
                      IF q = r
                      THEN [reqs[q] EXCEPT !.pc = "done", !.args = <<ps, t>>,
                                           !.status = 200,
                                           !.results = results']
                      ELSE IF reqs[q].args # <<>> /\ reqs[q].args # <<ps, t>>
                           THEN [reqs[q] EXCEPT !.between = TRUE]
                           ELSE reqs[q]]
  /\ pc' = "return"
  /\ UNCHANGED <<serverVars, formatVars>>

\* The response has been sent; the request is gone.
Close(r) ==
  /\ reqs[r].pc = "done"
  /\ reqs' = [reqs EXCEPT ![r] = IdleRequest]
  /\ UNCHANGED <<callVars, pc, serverVars, formatVars>>

(***************************************************************************)
(* The rate limiter (rate-limiter.js, two revisions).  A store is a        *)
(* function from the identifiers that have an entry to their entries.      *)
(* Request headers are [apiKey, ip, frontend]; "" is an absent header, and *)
(* ip is the first of x-forwarded-for, x-real-ip and the remote address.   *)
(* frontend is x-futurbyte-frontend, lexiotechFrontend is                  *)
(* x-lexiotech-frontend.                                                   *)
(***************************************************************************)
Headers(apiKey, ip, frontend) ==
  [apiKey |-> apiKey, ip |-> ip, frontend |-> frontend,
   lexiotechFrontend |-> ""]

\* The headers of a request of the browser client sent from address ip.
getApiHeaders(ip) ==
  [Headers("", ip, "") EXCEPT !.lexiotechFrontend = "true"]

\* Names every JavaScript object inherits: storage[name] is truthy for them
\* although no entry was stored.
PrototypeKeys == {"constructor"}

maxRequests(rev, isFrontendRequest) ==
  IF rev = 1 THEN 5 ELSE IF isFrontendRequest THEN 60 ELSE 30

timeWindow(rev) == IF rev = 1 THEN 60000 ELSE 60 * 60 * 1000

ClientIp(headers) == IF headers.ip # "" THEN headers.ip ELSE "0.0.0.0"

Identifier(headers) ==
  IF headers.apiKey # "" THEN headers.apiKey ELSE "ip:" \o ClientIp(headers)

WindowExpired(t, timestamp, window) == t - timestamp > window

\* The bug "one request more than the limit".
OverLimitByTwo(count, limit) == count > limit + 1

OverLimit(count, limit) == count > limit

\* The bug "every request restarts the window": a sliding window.
NextEntrySliding(storage, identifier, t, window) ==
  IF identifier \notin DOMAIN storage
  THEN [count |-> 1, timestamp |-> t]
  ELSE IF WindowExpired(t, storage[identifier].timestamp, window)
       THEN [count |-> 1, timestamp |-> t]
       ELSE [count |-> storage[identifier].count + 1, timestamp |-> t]

\* The entry after lines 48-64: first request, expired window, or one more
\* request in the window.
NextEntry(storage, identifier, t, window) ==
  IF identifier \notin DOMAIN storage
  THEN [count |-> 1, timestamp |-> t]
  ELSE IF WindowExpired(t, storage[identifier].timestamp, window)
       THEN [count |-> 1, timestamp |-> t]
       ELSE [count |-> storage[identifier].count + 1,
             timestamp |-> storage[identifier].timestamp]

Incremented(storage, identifier, t, window) ==
  /\ identifier \in DOMAIN storage
  /\ ~WindowExpired(t, storage[identifier].timestamp, window)

NoRateHeaders == [limit |-> 0, remaining |-> 0, reset |-> NaN]

\* storage[identifier] = entry with every other entry lost.
StoredAlone(storage, identifier, entry) ==
  [i \in {identifier} |-> entry]

\* storage[identifier] = entry: the other entries stay as they are.
Stored(storage, identifier, entry) ==
  [i \in DOMAIN storage \cup {identifier} |->
     IF i = identifier THEN entry ELSE storage[i]]

\* What rateLimit(req, res, next) does at time t: "next" (next() called),
\* "429" (response sent, next() not called) or "throw" (toISOString of an
\* invalid date, lines 80 / 88), with the stores and the headers it leaves.
rateLimit(rev, headers, t, ipL, keyL) ==
  LET isFrontendRequest == headers.frontend = "true"
      identifier == Identifier(headers)
      byKey == headers.apiKey # ""
      storage == IF byKey THEN keyL ELSE ipL
      limit == maxRequests(rev, isFrontendRequest)
      window == timeWindow(rev)
  IN IF rev = 1 /\ isFrontendRequest
     THEN [outcome |-> "next", ipLimits |-> ipL, apiKeyLimits |-> keyL,
           headers |-> NoRateHeaders, resetAt |-> NaN]
     ELSE IF byKey /\ identifier \in PrototypeKeys
     THEN [outcome |-> "throw", ipLimits |-> ipL, apiKeyLimits |-> keyL,
           headers |-> [limit |-> limit, remaining |-> NaN, reset |-> NaN],
           resetAt |-> NaN]
     ELSE
       LET entry == NextEntry(storage, identifier, t, window)
           stored == Stored(storage, identifier, entry)
           denied == /\ Incremented(storage, identifier, t, window)
                     /\ OverLimit(entry.count, limit)
       IN [outcome |-> IF denied THEN "429" ELSE "next",
           ipLimits |-> IF byKey THEN ipL ELSE stored,
           apiKeyLimits |-> IF byKey THEN stored ELSE keyL,
           headers |-> IF denied THEN NoRateHeaders
                       ELSE [limit |-> limit,
                             remaining |-> MathMax(<<0, limit - entry.count>>),
                             reset |-> entry.timestamp + window],
           resetAt |-> IF denied THEN entry.timestamp + window ELSE NaN]

\* The bug "authentication before the rate limiter" in the main handler.
StagesAuthFirst(entry) ==
  CASE entry = "main" -> <<"method", "validateApiKey", "rateLimit", "body">>
    [] entry = "keyed" -> <<"method", "validateApiKey", "body">>
    [] entry = "open" -> <<"method", "body">>
    [] entry = "express" -> <<"body">>
    [] entry = "validateApiKey" -> <<"validateApiKey">>
    [] entry = "rateLimit" -> <<"rateLimit">>
    [] OTHER -> <<>>

\* The entry points: api/calculate-disrepair.js ("main"), its revision with
\* validateApiKey only ("keyed"), its revision with no middleware ("open"),
\* the Express route of api/index.js ("express"), and the two middleware
\* functions called on their own.  Each runs its stages in this order.
Stages(entry) ==
  CASE entry = "main" -> <<"method", "rateLimit", "validateApiKey", "body">>
    [] entry = "keyed" -> <<"method", "validateApiKey", "body">>
    [] entry = "open" -> <<"method", "body">>
    [] entry = "express" -> <<"body">>
    [] entry = "validateApiKey" -> <<"validateApiKey">>
    [] entry = "rateLimit" -> <<"rateLimit">>
    [] OTHER -> <<>>

\* The stage after the given one, "done" after the last.
StageAfter(entry, stage) ==
  LET i == CHOOSE k \in 1..Len(Stages(entry)) : Stages(entry)[k] = stage
  IN IF i = Len(Stages(entry)) THEN "done" ELSE Stages(entry)[i + 1]

FirstStage(entry) ==
  IF Stages(entry) = <<>> THEN "" ELSE Stages(entry)[1]

\* A request as a handler or a middleware sees it: the entry point it came
\* to, its method, headers and body, req.client ("" while unset), the stage
\* it is at, the stages run for it so far with their outcomes, and the
\* state of the promise of the last applyMiddleware ("" if there is none).
Request(entry, method, headers, body) ==
  [entry |-> entry, method |-> method, headers |-> headers, body |-> body,
   client |-> "", pc |-> FirstStage(entry), trace |-> <<>>, promise |-> ""]

NoRequest == Request("", "", Headers("", "", ""), EmptyBody)

\* A response nothing was written to: status 0, sent 0 times.
NoResponse ==
  [status |-> 0, error |-> "", rows |-> <<>>, headers |-> NoRateHeaders,
   resetAt |-> NaN, sent |-> 0]

\* No direct call of formatDateForProcessing.
NoFormat ==
  /\ dateStr = <<>>
  /\ formatted = <<>>
  /\ reformatted = <<>>

\* The server before any request, for the specifications without one.
NoServer ==
  /\ limiterRev = 1
  /\ authRev = 1
  /\ env = "unset"
  /\ now = 0
  /\ ipLimits = <<>>
  /\ apiKeyLimits = <<>>
  /\ req = NoRequest
  /\ res = NoResponse
  /\ allowedAt = <<>>
  /\ ticks = 0
  /\ arrivals = 0
  /\ NoFormat

(***************************************************************************)
(* validateApiKey (middleware.js, two revisions).  env is CLIENT_API_KEYS: *)
(* "unset", "configured" (the JSON text of ConfiguredKeys under "keys") or *)
(* "malformed" (text JSON.parse rejects).                                  *)
(***************************************************************************)
ConfiguredKeys ==
  [k \in {"k1", "k2"} |->
     IF k = "k1" THEN [name |-> "Client One", active |-> TRUE]
     ELSE [name |-> "Client Two", active |-> FALSE]]

NoClientInfo == [found |-> FALSE, name |-> "", active |-> TRUE]

\* clientsData.keys?.[apiKey]: an own entry, a member every object
\* inherits (truthy, with no "active" property), or undefined.
ClientInfo(e, apiKey) ==
  IF e # "configured" THEN NoClientInfo
  ELSE IF apiKey \in DOMAIN ConfiguredKeys
       THEN [found |-> TRUE, name |-> ConfiguredKeys[apiKey].name,
             active |-> ConfiguredKeys[apiKey].active]
       ELSE IF apiKey \in PrototypeKeys
            THEN [found |-> TRUE, name |-> "Object." \o apiKey,
                  active |-> TRUE]
            ELSE NoClientInfo

KeyRefused(clientInfo) == clientInfo.active = FALSE

\* What validateApiKey(req, res, next) does: "next" with the req.client it
\* sets ("" if it sets none), or a response of its own ("401", "500") with
\* next() not called.
validateApiKey(rev, method, headers, e) ==
  IF rev = 2 /\ method = "OPTIONS"
  THEN [outcome |-> "next", client |-> "", error |-> ""]
  ELSE IF rev = 1 /\ headers.frontend = "true"
  THEN [outcome |-> "next", client |-> "Frontend User", error |-> ""]
  ELSE IF headers.apiKey = ""
  THEN [outcome |-> "401", client |-> "", error |-> "Unauthorized"]
  ELSE IF e = "malformed"
  THEN [outcome |-> "500", client |-> "", error |-> "Internal Server Error"]
  ELSE IF ~ClientInfo(e, headers.apiKey).found
  THEN [outcome |-> "401", client |-> "", error |-> "Unauthorized"]
  ELSE IF KeyRefused(ClientInfo(e, headers.apiKey))
  THEN [outcome |-> "401", client |-> "", error |-> "Unauthorized"]
  ELSE [outcome |-> "next", client |-> ClientInfo(e, headers.apiKey).name,
        error |-> ""]

(***************************************************************************)
(* The handlers.  A handler runs stage by stage; after a middleware that   *)
(* answers without calling next() the await never returns ("hung").        *)
(***************************************************************************)
\* req.body when no JSON body was parsed, and a null element of periods.
Undefined == [undefined |-> TRUE]

NullPeriod == [null |-> TRUE]

\* The bug "GET is served like POST".
MethodStatusGetAllowed(method) == IF method = "OPTIONS" THEN 200 ELSE 0

\* The status the method check answers with, 0 if it lets the request on.
MethodStatus(method) ==
  IF method = "OPTIONS" THEN 200 ELSE IF method # "POST" THEN 405 ELSE 0

\* The loop over the periods: "400" at the first period with a falsy
\* field, "throw" at a null period (a property of null is read), else "ok".
RECURSIVE CheckPeriods(_, _)
CheckPeriods(ps, i) ==
  IF i > Len(ps) THEN "ok"
  ELSE IF ps[i] = NullPeriod THEN "throw"
  ELSE IF ps[i].roomName = "" \/ ps[i].startDate = <<>>
          \/ ps[i].endDate = <<>>
       THEN "400"
       ELSE CheckPeriods(ps, i + 1)

\* Reading and validating the body.  bodyParser.json() of the Express app
\* leaves {} when there is no body; the handler without middleware tests
\* req.body itself; the others destructure undefined and throw.
ValidateBody(entry, body) ==
  IF body = Undefined
  THEN IF entry \in {"express", "open"} THEN "400" ELSE "throw"
  ELSE IF body.periods = <<>> THEN "400"
  ELSE CheckPeriods(body.periods, 1)

BodyError(entry, body) ==
  IF body = Undefined /\ entry = "open" THEN "Invalid request format"
  ELSE IF body = Undefined \/ body.periods = <<>>
       THEN "Invalid input - Disrepair periods required"
       ELSE "Invalid input - Each period must have roomName, startDate, and endDate"

\* The bug "the middleware calls next() after it has answered".
PromiseAlwaysSettles(outcome) ==
  IF outcome = "throw" THEN "rejected" ELSE "resolved"

\* applyMiddleware: the promise resolves when the middleware calls next(),
\* rejects when the middleware throws inside the executor, and stays
\* pending when the middleware answers without calling next().
Promise(outcome) ==
  CASE outcome = "next" -> "resolved"
    [] outcome = "throw" -> "rejected"
    [] OTHER -> "pending"

\* Where the handler is after awaiting the promise: at its next statement,
\* through its catch block, or still at the await.
AfterAwait(entry, stage, promise) ==
  CASE promise = "resolved" -> StageAfter(entry, stage)
    [] promise = "rejected" -> "done"
    [] OTHER -> "hung"

Sent(status, error) ==
  [res EXCEPT !.status = status, !.error = error, !.sent = res.sent + 1]

Ran(stage, outcome) == [req EXCEPT !.trace = req.trace \o <<stage, outcome>>]

MethodCheck ==
  /\ req.pc = "method"
  /\ \E status \in {MethodStatus(req.method)} :
       IF status # 0
       THEN /\ res' = Sent(status, IF status = 405 THEN "Method not allowed"
                                   ELSE "")
            /\ req' = [Ran("method", req.method) EXCEPT !.pc = "done"]
       ELSE /\ res' = res
            /\ req' = [Ran("method", req.method) EXCEPT
                         !.pc = StageAfter(req.entry, "method")]
  /\ UNCHANGED <<callVars, pc, reqs, formatVars, limiterRev, authRev, env,
                 now, ipLimits, apiKeyLimits, allowedAt, ticks, arrivals>>

\* await applyMiddleware(req, res, rateLimit), and the catch block if the
\* middleware throws.
RateLimitStage ==
  /\ req.pc = "rateLimit"
  /\ req.entry # "rateLimit"
  /\ \E o \in {rateLimit(limiterRev, req.headers, now, ipLimits,
                         apiKeyLimits)} :
       /\ ipLimits' = o.ipLimits
       /\ apiKeyLimits' = o.apiKeyLimits
       /\ req' = [Ran("rateLimit", o.outcome) EXCEPT
                    !.promise = Promise(o.outcome),
                    !.pc = AfterAwait(req.entry, "rateLimit",
                                      Promise(o.outcome))]
       /\ res' = [res EXCEPT
                    !.status = CASE o.outcome = "429" -> 429
                                 [] o.outcome = "throw" -> 500
                                 [] OTHER -> res.status,
                    !.error = CASE o.outcome = "429" -> "Too Many Requests"
                                [] o.outcome = "throw" ->
                                     "Server error processing disrepair analysis"
                                [] OTHER -> res.error,
                    !.headers = o.headers,
                    !.resetAt = o.resetAt,
                    !.sent = IF o.outcome = "next" THEN res.sent
                             ELSE res.sent + 1]
  /\ UNCHANGED <<callVars, pc, reqs, formatVars, limiterRev, authRev, env,
                 now, allowedAt, ticks, arrivals>>

\* await applyMiddleware(req, res, validateApiKey), or the middleware
\* called on its own.
ValidateApiKeyStage ==
  /\ req.pc = "validateApiKey"
  /\ \E o \in {validateApiKey(authRev, req.method, req.headers, env)} :
       /\ req' = [Ran("validateApiKey", o.outcome) EXCEPT
                    !.client = o.client,
                    !.promise = Promise(o.outcome),
                    !.pc = AfterAwait(req.entry, "validateApiKey",
                                      Promise(o.outcome))]
       /\ res' = IF o.outcome = "next" THEN res
                 ELSE Sent(IF o.outcome = "401" THEN 401 ELSE 500, o.error)
  /\ UNCHANGED <<callVars, pc, reqs, formatVars, limiterRev, authRev, env,
                 now, ipLimits, apiKeyLimits, allowedAt, ticks, arrivals>>

\* The rest of the handler: validation, the room total, the calculation
\* and the response.
BodyStage ==
  /\ req.pc = "body"
  /\ \E v \in {ValidateBody(req.entry, req.body)} :
       \/ /\ v = "400"
          /\ res' = Sent(400, BodyError(req.entry, req.body))
          /\ req' = [Ran("body", "400") EXCEPT !.pc = "done"]
          /\ UNCHANGED callVars
       \/ /\ v = "throw"
          /\ res' = Sent(500, "Server error processing disrepair analysis")
          /\ req' = [Ran("body", "throw") EXCEPT !.pc = "done"]
          /\ UNCHANGED callVars
       \/ /\ v = "ok"
          /\ calculateDisrepairOverlap(req.body.periods,
                                       EffectiveTotalRooms(req.body))
          /\ res' = [Sent(200, "") EXCEPT !.rows = results']
          /\ req' = [Ran("body", "calculateDisrepairOverlap") EXCEPT
                       !.pc = "done"]
  /\ UNCHANGED <<pc, reqs, formatVars, limiterRev, authRev, env, now, ipLimits,
                 apiKeyLimits, allowedAt, ticks, arrivals>>

(***************************************************************************)
(* Spec: one direct call of the aggregator on an input of the caller's     *)
(* choice.  pc is the caller's position: before the call or after it.      *)
(***************************************************************************)
NoCall ==
  /\ totalRooms = 0
  /\ processedPeriods = <<>>
  /\ minDate = NaN
  /\ maxDate = NaN
  /\ timeline = <<>>
  /\ groupedPeriods = <<>>
  /\ roomCountTotals = <<>>
  /\ results = <<>>

Init ==
  /\ periods \in PeriodLists
  /\ totalRoomsArg \in TotalRoomsArgs
  /\ NoCall
  /\ pc = "call"
  /\ reqs = [r \in 1..NumReqs |-> IdleRequest]
  /\ NoServer

Invoke ==
  /\ pc = "call"
  /\ calculateDisrepairOverlap(periods, totalRoomsArg)
  /\ pc' = "return"
  /\ UNCHANGED <<reqs, serverVars, formatVars>>

Next == Invoke

Spec == Init /\ [][Next]_vars

(***************************************************************************)
(* SpecCalls: requests handled concurrently, each calling the aggregator.  *)
(***************************************************************************)
InitCalls ==
  /\ periods = <<>>
  /\ totalRoomsArg = 0
  /\ NoCall
  /\ pc = "call"
  /\ reqs = [r \in 1..NumReqs |-> IdleRequest]
  /\ NoServer

NextCalls ==
  \E r \in 1..NumReqs :
    \/ Receive(r)
    \/ Reject(r)
    \/ Calculate(r)
    \/ Close(r)

SpecCalls == InitCalls /\ [][NextCalls]_vars

(***************************************************************************)
(* SpecExamples: one direct call on two periods written day/month/year as  *)
(* the documented examples are ("01/01/2025"): room A from day 1, and room *)
(* A or B over any two days, with a totalRooms that is negative, falsy or  *)
(* positive.                                                               *)
(***************************************************************************)
DmyString(d) ==
  padStart(NumberToString(d)) \o <<"/", "0", "1", "/">> \o Year

ExamplePeriod(room, a, b) ==
  [roomName |-> room, startDate |-> DmyString(a), endDate |-> DmyString(b)]

ExampleLists ==
  {<<ExamplePeriod("A", 1, a), ExamplePeriod(room, b, e)>> :
     a \in 1..MaxExampleDay, room \in {"A", "B"},
     b \in 1..MaxExampleDay, e \in 1..MaxExampleDay}

ExampleTotals == (-1)..2

InitExamples ==
  /\ periods \in ExampleLists
  /\ totalRoomsArg \in ExampleTotals
  /\ NoCall
  /\ pc = "call"
  /\ reqs = [r \in 1..NumReqs |-> IdleRequest]
  /\ NoServer

SpecExamples == InitExamples /\ [][Next]_vars

(***************************************************************************)
(* SpecDegenerate: calls with lists of at most MaxDegenerate periods whose *)
(* dates are the first day, the last day, or a string that is no date.     *)
(***************************************************************************)
UnparseableStrings == {<<>>, <<"n", "/", "a">>}

DegenerateDates == {DateString(1), DateString(MaxDay)} \cup UnparseableStrings

DegeneratePeriods ==
  [roomName : Rooms, startDate : DegenerateDates, endDate : DegenerateDates]

DegenerateLists ==
  UNION {[1..n -> DegeneratePeriods] : n \in 0..MaxDegenerate}

InitDegenerate ==
  /\ periods \in DegenerateLists
  /\ totalRoomsArg \in {0, MaxTotalRooms}
  /\ NoCall
  /\ pc = "call"
  /\ reqs = [r \in 1..NumReqs |-> IdleRequest]
  /\ NoServer

SpecDegenerate == InitDegenerate /\ [][Next]_vars

(***************************************************************************)
(* SpecLimiter: rateLimit called for one client again and again while the  *)
(* clock moves by a millisecond or by a whole window.  Both stores hold    *)
(* entries of earlier requests: of another key, and of the address of the  *)
(* client that sends a key.                                                *)
(***************************************************************************)
LimiterClients ==
  {Headers("k1", "10.0.0.9", ""), Headers("", "10.0.0.1", "")}

EarlierEntry == [count |-> 1, timestamp |-> 0]

EarlierIpLimits == [i \in {"ip:10.0.0.9"} |-> EarlierEntry]

EarlierApiKeyLimits == [i \in {"k9"} |-> EarlierEntry]

ClockSteps == {1, timeWindow(limiterRev)}

InitLimiter ==
  /\ periods = <<>>
  /\ totalRoomsArg = 0
  /\ NoCall
  /\ pc = "call"
  /\ reqs = [r \in 1..NumReqs |-> IdleRequest]
  /\ limiterRev \in {1, 2}
  /\ authRev = 1
  /\ env = "unset"
  /\ now = 0
  /\ ipLimits = EarlierIpLimits
  /\ apiKeyLimits = EarlierApiKeyLimits
  /\ \E h \in LimiterClients : req = Request("rateLimit", "POST", h, EmptyBody)
  /\ res = NoResponse
  /\ allowedAt = <<>>
  /\ ticks = 0
  /\ arrivals = 0
  /\ NoFormat

\* One more request of the client goes through rateLimit.
RateLimitCall ==
  /\ arrivals < maxRequests(limiterRev, FALSE) + ExtraArrivals
  /\ \E o \in {rateLimit(limiterRev, req.headers, now, ipLimits,
                         apiKeyLimits)} :
       /\ ipLimits' = o.ipLimits
       /\ apiKeyLimits' = o.apiKeyLimits
       /\ req' = [req EXCEPT !.trace = <<"rateLimit", o.outcome>>]
       /\ res' = [NoResponse EXCEPT
                    !.status = IF o.outcome = "429" THEN 429 ELSE 0,
                    !.error = IF o.outcome = "429" THEN "Too Many Requests"
                              ELSE "",
                    !.headers = o.headers,
                    !.resetAt = o.resetAt,
                    !.sent = IF o.outcome = "429" THEN 1 ELSE 0]
       /\ allowedAt' = IF o.outcome = "next" THEN Append(allowedAt, now)
                       ELSE allowedAt
  /\ arrivals' = arrivals + 1
  /\ UNCHANGED <<callVars, pc, reqs, formatVars, limiterRev, authRev, env,
                 now, ticks>>

Tick(d) ==
  /\ ticks < MaxTicks
  /\ now' = now + d
  /\ ticks' = ticks + 1
  /\ UNCHANGED <<callVars, pc, reqs, formatVars, limiterRev, authRev, env,
                 ipLimits, apiKeyLimits, req, res, allowedAt, arrivals>>

NextLimiter ==
  \/ RateLimitCall
  \/ \E d \in ClockSteps : Tick(d)

SpecLimiter == InitLimiter /\ [][NextLimiter]_vars

(***************************************************************************)
(* SpecHandler: one request to one entry point, on a server whose          *)
(* configuration and whose rate-limit entry for the client are any of      *)
(* those below.                                                            *)
(***************************************************************************)
HeaderMenu ==
  {Headers("", "10.0.0.1", ""), Headers("", "", ""),
   Headers("k1", "10.0.0.1", ""), Headers("k2", "10.0.0.1", ""),
   Headers("zz", "10.0.0.1", ""), Headers("constructor", "10.0.0.1", ""),
   Headers("", "10.0.0.1", "true"), getApiHeaders("10.0.0.1")}

InvalidBodies ==
  {EmptyBody, Undefined,
   [periods |-> <<NullPeriod>>, totalRooms |-> JsonUndefined,
    rooms |-> <<>>],
   [periods |-> <<MenuPeriod("", 1, 1)>>, totalRooms |-> JsonUndefined,
    rooms |-> <<>>],
   [periods |-> <<MenuPeriod("Kitchen", 1, 1),
                  [roomName |-> "Bathroom", startDate |-> <<>>,
                   endDate |-> DateString(1)]>>,
    totalRooms |-> JsonUndefined, rooms |-> <<>>]}

\* totalRooms as sent: absent, 0, a positive integer, a negative number,
\* fractions below and above 1, and strings with and without a number.
TotalRoomsValues ==
  {JsonUndefined,
   JsonNumber(<<"0">>), JsonNumber(NumberToString(MaxTotalRooms)),
   JsonNumber(<<"-", "1">>), JsonNumber(<<"0", ".", "5">>),
   JsonNumber(<<"2", ".", "5">>),
   JsonString(<<"a", "b", "c">>), JsonString(<<"2">>),
   JsonString(<<".", "5">>)}

ValidBodies ==
  {[periods |-> <<MenuPeriod("Kitchen", 1, MaxDay),
                  MenuPeriod(room, 2, 2)>>,
    totalRooms |-> t, rooms |-> rooms] :
     room \in Rooms, t \in TotalRoomsValues,
     rooms \in {<<>>, << <<>> >>,
                 << <<"Kitchen", "Bathroom", "Hall", "Attic", "Cellar">> >>}}

RequestMenu ==
  {Request(entry, "POST", h, body) :
     entry \in {"main", "keyed"}, h \in HeaderMenu,
     body \in InvalidBodies \cup ValidBodies}
  \cup
  {Request(entry, "POST", h, body) :
     entry \in {"open", "express"},
     h \in {Headers("", "10.0.0.1", ""), Headers("k1", "10.0.0.1", "")},
     body \in InvalidBodies \cup ValidBodies}
  \cup
  {Request(entry, method, h, EmptyBody) :
     entry \in {"main", "keyed", "open"}, method \in {"OPTIONS", "GET"},
     h \in {Headers("", "10.0.0.1", ""), Headers("k1", "10.0.0.1", "")}}
  \cup
  {Request("validateApiKey", method, h, EmptyBody) :
     method \in {"OPTIONS", "GET", "POST"}, h \in HeaderMenu}

\* The store after the client has used up a window that began at time 0.
\* The store after count requests of the client at time 0.
CountedSoFar(headers, count) ==
  [i \in {Identifier(headers)} |-> [count |-> count, timestamp |-> 0]]

UsedUp(headers, rev) == CountedSoFar(headers, maxRequests(rev, FALSE))

InitHandler ==
  /\ periods = <<>>
  /\ totalRoomsArg = 0
  /\ NoCall
  /\ pc = "call"
  /\ reqs = [r \in 1..NumReqs |-> IdleRequest]
  /\ limiterRev \in {1, 2}
  /\ authRev \in {1, 2}
  /\ env \in {"unset", "configured", "malformed"}
  /\ now \in {0, timeWindow(limiterRev)}
  /\ req \in RequestMenu
  /\ \E used \in {UsedUp(req.headers, limiterRev),
                  CountedSoFar(req.headers, 1), <<>>} :
       /\ ipLimits = IF req.headers.apiKey = "" THEN used ELSE <<>>
       /\ apiKeyLimits = IF req.headers.apiKey \notin PrototypeKeys \cup {""}
                         THEN used ELSE <<>>
  /\ res = NoResponse
  /\ allowedAt = <<>>
  /\ ticks = 0
  /\ arrivals = 0
  /\ NoFormat

NextHandler ==
  \/ MethodCheck
  \/ RateLimitStage
  \/ ValidateApiKeyStage
  \/ BodyStage

SpecHandler == InitHandler /\ [][NextHandler]_vars

(***************************************************************************)
(* SpecFormat: one direct call of formatDateForProcessing, and a second    *)
(* call on its result.  The strings are up to MaxParts pieces joined by    *)
(* "/" or "-".                                                             *)
(***************************************************************************)
Pieces ==
  {<<>>, <<"1">>, <<"1", "2">>, <<"2", "0", "2", "5">>, <<"a">>,
   <<"1", "2", "3">>}

RECURSIVE Joined(_)
Joined(n) ==
  IF n = 1 THEN Pieces
  ELSE {s \o <<sep>> \o piece :
          s \in Joined(n - 1), sep \in {"/", "-"}, piece \in Pieces}

DateInputs == UNION {Joined(n) : n \in 1..MaxParts} \ {<<>>}

InitFormat ==
  /\ periods = <<>>
  /\ totalRoomsArg = 0
  /\ NoCall
  /\ pc = "call"
  /\ reqs = [r \in 1..NumReqs |-> IdleRequest]
  /\ limiterRev = 1
  /\ authRev = 1
  /\ env = "unset"
  /\ now = 0
  /\ ipLimits = <<>>
  /\ apiKeyLimits = <<>>
  /\ req = NoRequest
  /\ res = NoResponse
  /\ allowedAt = <<>>
  /\ ticks = 0
  /\ arrivals = 0
  /\ dateStr \in DateInputs
  /\ formatted = <<>>
  /\ reformatted = <<>>

Format ==
  /\ pc = "call"
  /\ dateStr # <<>>
  /\ formatted' = formatDateForProcessing(dateStr)
  /\ reformatted' = formatDateForProcessing(formatted')
  /\ pc' = "return"
  /\ UNCHANGED <<callVars, reqs, serverVars, dateStr>>

NextFormat == Format

SpecFormat == InitFormat /\ [][NextFormat]_vars

(***************************************************************************)
(* Properties of one call.  They are stated on the parsed intervals of the *)
(* input and on the locals the call leaves behind.                         *)
(***************************************************************************)
Returned == pc = "return"

\* The parsed intervals of the call's input.
Intervals == processedPeriods

Ordered(iv) == Le(iv.startDate, iv.endDate)

ValidInput ==
  /\ periods # <<>>
  /\ Len(Intervals) = Len(periods)
  /\ \A j \in 1..Len(Intervals) : Ordered(Intervals[j])

EarliestStart ==
  CHOOSE d \in {Intervals[j].startDate : j \in 1..Len(Intervals)} :
    \A j \in 1..Len(Intervals) : d <= Intervals[j].startDate

LatestEnd ==
  CHOOSE d \in {Intervals[j].endDate : j \in 1..Len(Intervals)} :
    \A j \in 1..Len(Intervals) : d >= Intervals[j].endDate

RECURSIVE SumOver(_, _)
SumOver(f, n) == IF n = 0 THEN 0 ELSE f[n] + SumOver(f, n - 1)

SpanSum ==
  SumOver([k \in 1..Len(groupedPeriods) |->
             groupedPeriods[k].endDate - groupedPeriods[k].startDate + 1],
          Len(groupedPeriods))

SegmentsHolding(d) ==
  {k \in 1..Len(groupedPeriods) :
     groupedPeriods[k].startDate <= d /\ d <= groupedPeriods[k].endDate}

\* C1: for a non-empty input whose intervals all have start <= end, every
\* day from the earliest start to the latest end lies in exactly one
\* segment, and the segments' day-spans add up to (maxDate - minDate) + 1.
C1_SegmentsPartition ==
  (Returned /\ ValidInput) =>
    /\ minDate = EarliestStart
    /\ maxDate = LatestEnd
    /\ \A d \in EarliestStart..LatestEnd : Cardinality(SegmentsHolding(d)) = 1
    /\ \A k \in 1..Len(groupedPeriods) :
         /\ groupedPeriods[k].startDate >= EarliestStart
         /\ groupedPeriods[k].endDate <= LatestEnd
    /\ SpanSum = (LatestEnd - EarliestStart) + 1

C1_Witness ==
  /\ Returned
  /\ ValidInput
  /\ Len(groupedPeriods) = 3
  /\ LatestEnd - EarliestStart = 2

\* The number of intervals holding day d, one by one (with multiplicity).
HoldsDay(iv, d) ==
  IF iv.startDate <= d /\ d <= iv.endDate THEN 1 ELSE 0

CoveringCount(d) ==
  SumOver([j \in 1..Len(Intervals) |-> HoldsDay(Intervals[j], d)],
          Len(Intervals))

OrderedCoveringCount(d) ==
  SumOver([j \in 1..Len(Intervals) |->
             IF Ordered(Intervals[j]) THEN HoldsDay(Intervals[j], d) ELSE 0],
          Len(Intervals))

\* C2: the roomCount of every day of the timeline is the number of input
\* intervals, counted with multiplicity, with start <= day <= end; an
\* interval of one day counts on that day, an inverted one on no day.
C2_DayCount ==
  Returned =>
    \A i \in 1..Len(timeline) :
      /\ timeline[i].roomCount = CoveringCount(timeline[i].date)
      /\ timeline[i].roomCount = OrderedCoveringCount(timeline[i].date)
      /\ \A j \in 1..Len(Intervals) :
           (Intervals[j].startDate = Intervals[j].endDate
              /\ Intervals[j].startDate = timeline[i].date)
             => timeline[i].roomCount >= 1

C2_Witness ==
  /\ Returned
  /\ Len(periods) = 2
  /\ periods[1].roomName = periods[2].roomName
  /\ Intervals[1].startDate = Intervals[1].endDate
  /\ Intervals[2].startDate < Intervals[2].endDate
  /\ \E i \in 1..Len(timeline) :
       timeline[i].date = Intervals[1].startDate /\ timeline[i].roomCount = 2

DayIndex(d) == CHOOSE i \in 1..Len(timeline) : timeline[i].date = d

\* C3: the segments are maximal runs in chronological order: every day of
\* a segment has the segment's roomCount, the first segment starts on the
\* first day, each next one on the day after the previous one ends, and
\* two neighbours never have the same roomCount.
C3_MaximalRuns ==
  Returned =>
    /\ (timeline = <<>>) <=> (groupedPeriods = <<>>)
    /\ groupedPeriods # <<>> =>
         /\ groupedPeriods[1].startDate = timeline[1].date
         /\ groupedPeriods[Len(groupedPeriods)].endDate
              = timeline[Len(timeline)].date
    /\ \A k \in 1..Len(groupedPeriods) :
         /\ groupedPeriods[k].startDate <= groupedPeriods[k].endDate
         /\ \A d \in groupedPeriods[k].startDate..groupedPeriods[k].endDate :
              /\ \E i \in 1..Len(timeline) : timeline[i].date = d
              /\ timeline[DayIndex(d)].roomCount = groupedPeriods[k].roomCount
    /\ \A k \in 2..Len(groupedPeriods) :
         /\ groupedPeriods[k].startDate = groupedPeriods[k - 1].endDate + 1
         /\ groupedPeriods[k].roomCount # groupedPeriods[k - 1].roomCount

C3_Witness ==
  /\ Returned
  /\ Len(groupedPeriods) = 2
  /\ groupedPeriods[1].endDate > groupedPeriods[1].startDate

DaysWithCount(k) == {i \in 1..Len(timeline) : timeline[i].roomCount = k}

RowsWithCount(k) == {i \in 1..Len(results) : results[i].roomCount = k}

CountsToCheck ==
  (0..(Len(periods) + 1))
    \cup {timeline[i].roomCount : i \in 1..Len(timeline)}
    \cup {results[i].roomCount : i \in 1..Len(results)}

\* C4: the output has a row with roomCount k exactly when k > 0 and some
\* day of the timeline has count k; there is one row per such k, never a
\* row with roomCount 0, and a valid non-empty input gives some row.
C4_RowsPerCount ==
  Returned =>
    /\ \A k \in CountsToCheck :
         /\ (RowsWithCount(k) # {}) <=> (k > 0 /\ DaysWithCount(k) # {})
         /\ Cardinality(RowsWithCount(k)) <= 1
    /\ RowsWithCount(0) = {}
    /\ ValidInput => results # <<>>

C4_Witness ==
  /\ Returned
  /\ DaysWithCount(0) # {}
  /\ Len(results) = 1
  /\ results[1].roomCount = 1

\* w tenths is num/den rounded to one decimal place.
IsRoundedTenths(w, num, den) ==
  /\ 2 * (10 * num - w * den) <= den
  /\ 2 * (w * den - 10 * num) <= den

SegmentsWithCount(k) ==
  {g \in 1..Len(groupedPeriods) : groupedPeriods[g].roomCount = k}

\* C5: the weeksInDisrepair of the row of roomCount k is (number of
\* timeline days with count k) / 7 rounded once to one decimal place; the
\* running total holds the unrounded sum, however the days are split into
\* segments.
C5_WeeksRoundedOnce ==
  Returned =>
    \A r \in 1..Len(results) :
      LET k == results[r].roomCount
          key == NumberToString(k)
      IN /\ key \in DOMAIN roomCountTotals
         /\ 7 * roomCountTotals[key] = 70 * Cardinality(DaysWithCount(k))
         /\ IsRoundedTenths(results[r].weeksInDisrepair,
                            Cardinality(DaysWithCount(k)), 7)

C5_Witness ==
  /\ Returned
  /\ Len(results) = 1
  /\ Cardinality(SegmentsWithCount(results[1].roomCount)) = 2
  /\ Cardinality(DaysWithCount(results[1].roomCount)) = 2
  /\ results[1].weeksInDisrepair = 3

\* C6: the percentageOfProperty of every row is (roomCount / totalRooms)
\* * 100 rounded to one decimal place, with the call's one resolved
\* totalRooms as the denominator of every row.
C6_Percentage ==
  Returned =>
    \A r \in 1..Len(results) :
      /\ totalRooms > 0
      /\ IsRoundedTenths(results[r].percentageOfProperty,
                         100 * results[r].roomCount, totalRooms)

C6_Witness ==
  /\ Returned
  /\ totalRooms = 3
  /\ Len(results) = 2
  /\ results[1].percentageOfProperty = 333
  /\ results[2].percentageOfProperty = 667

\* C7: the rows are in strictly ascending order of roomCount.
C7_RowsAscending ==
  Returned =>
    \A r \in 1..(Len(results) - 1) :
      results[r].roomCount < results[r + 1].roomCount

C7_Witness ==
  /\ Returned
  /\ Len(results) = 2
  /\ groupedPeriods[1].roomCount = 2

\* C8: every roomCount of the output is a positive integer not above the
\* number of input intervals, and a row whose roomCount <= totalRooms has
\* its percentageOfProperty in [0, 100].
C8_Bounds ==
  Returned =>
    \A r \in 1..Len(results) :
      /\ results[r].roomCount \in 1..Len(periods)
      /\ results[r].roomCount <= totalRooms =>
           /\ results[r].percentageOfProperty >= 0
           /\ results[r].percentageOfProperty <= 1000

C8_Witness ==
  /\ Returned
  /\ \E r \in 1..Len(results) :
       /\ results[r].roomCount = Len(periods)
       /\ results[r].roomCount = totalRooms
       /\ Len(periods) = 2
       /\ results[r].percentageOfProperty = 1000

Permuted(p) == [i \in 1..Len(periods) |-> periods[p[i]]]

\* C9: the rows do not depend on the order of the periods: every
\* permutation of the list, with the same totalRooms argument (given or
\* left to the fallback), returns the same list of rows.
C9_OrderInsensitive ==
  Returned =>
    \A p \in Permutations(1..Len(periods)) :
      CallLocals(Permuted(p), totalRoomsArg).results = results

C9_Witness ==
  /\ Returned
  /\ totalRoomsArg = 0
  /\ Len(periods) = 2
  /\ periods[1].roomName # periods[2].roomName
  /\ Intervals[1].startDate > Intervals[2].startDate
  /\ Intervals[1].endDate > Intervals[2].endDate
  /\ Len(results) = 2

Called(r) == reqs[r].pc = "done" /\ reqs[r].args # <<>>

\* C10: two calls with identical arguments return identical rows, whatever
\* calls were made before or between them by the handlers of other
\* requests resumed in any order; each row list is the one a call on the
\* locals of no earlier call gives.
C10_Pure ==
  /\ \A r1, r2 \in 1..NumReqs :
       (Called(r1) /\ Called(r2) /\ reqs[r1].args = reqs[r2].args)
         => reqs[r1].results = reqs[r2].results
  /\ \A r \in 1..NumReqs :
       (Called(r) /\ reqs[r].args = <<periods, totalRoomsArg>>)
         => reqs[r].results = results

C10_Witness ==
  \E r1, r2 \in 1..NumReqs :
    /\ r1 # r2
    /\ Called(r1)
    /\ Called(r2)
    /\ reqs[r1].args = reqs[r2].args
    /\ reqs[r1].between
    /\ ~reqs[r2].between
    /\ Len(reqs[r1].results) = 2

(***************************************************************************)
(* The documented examples.                                                *)
(***************************************************************************)
Row(count, weeks, percentage) ==
  [roomCount |-> count, weeksInDisrepair |-> weeks,
   percentageOfProperty |-> percentage]

Segment(a, b, count) ==
  [startDate |-> EpochDay(2025, 1, a), endDate |-> EpochDay(2025, 1, b),
   roomCount |-> count]

NonOverlappingInput ==
  /\ periods = <<ExamplePeriod("A", 1, 7), ExamplePeriod("B", 8, 14)>>
  /\ totalRoomsArg = 2

\* C11 as stated: A = 01/01..07/01 and B = 08/01..14/01 with totalRooms 2
\* give two segments, each at roomCount 1, merged into the single row
\* {roomCount: 1, weeksInDisrepair: 2.0, percentageOfProperty: 50.0}.
C11_TwoSegments ==
  (Returned /\ NonOverlappingInput) =>
    /\ Len(groupedPeriods) = 2
    /\ \A k \in 1..Len(groupedPeriods) : groupedPeriods[k].roomCount = 1
    /\ results = <<Row(1, 20, 500)>>

\* C11 amended: the two intervals give one segment, days 1 to 14 at
\* roomCount 1 (the count never changes), and the single row
\* {roomCount: 1, weeksInDisrepair: 2.0, percentageOfProperty: 50.0}.
C11_OneSegment ==
  (Returned /\ NonOverlappingInput) =>
    /\ groupedPeriods = <<Segment(1, 14, 1)>>
    /\ results = <<Row(1, 20, 500)>>

C11_Witness ==
  /\ Returned
  /\ NonOverlappingInput
  /\ Len(timeline) = 14

PartialOverlapInput ==
  /\ periods = <<ExamplePeriod("A", 1, 10), ExamplePeriod("B", 5, 15)>>
  /\ totalRoomsArg = 2

\* C12: A = 01/01..10/01 and B = 05/01..15/01 with totalRooms 2 give
\* exactly three segments (count 1 on days 1-4, 2 on days 5-10, 1 on days
\* 11-15) and exactly two rows: roomCount 1 with 1.3 weeks and 50.0 %,
\* then roomCount 2 with 0.9 weeks and 100.0 %.
C12_PartialOverlap ==
  (Returned /\ PartialOverlapInput) =>
    /\ groupedPeriods
         = <<Segment(1, 4, 1), Segment(5, 10, 2), Segment(11, 15, 1)>>
    /\ results = <<Row(1, 13, 500), Row(2, 9, 1000)>>

C12_Witness ==
  /\ Returned
  /\ PartialOverlapInput
  /\ Len(timeline) = 15

DistinctRoomNames == {periods[i].roomName : i \in 1..Len(periods)}

\* C14: called with a totalRooms that is omitted, null, zero or negative,
\* the aggregator takes the number of distinct roomName values of the
\* periods (2 for two rooms, 1 for one room named twice), as the handler's
\* fallback does; called with a positive totalRooms it uses that value.
C14_Fallback ==
  Returned =>
    /\ totalRoomsArg <= 0 =>
         /\ totalRooms = Cardinality(DistinctRoomNames)
         /\ totalRooms
              = EffectiveTotalRooms([periods |-> periods,
                                     totalRooms |-> JsonUndefined,
                                     rooms |-> <<>>])
         /\ periods[1].roomName # periods[2].roomName => totalRooms = 2
         /\ periods[1].roomName = periods[2].roomName => totalRooms = 1
    /\ totalRoomsArg > 0 => totalRooms = totalRoomsArg
    /\ \A r \in 1..Len(results) :
         IsRoundedTenths(results[r].percentageOfProperty,
                         100 * results[r].roomCount, totalRooms)

C14_Witness ==
  /\ Returned
  /\ totalRoomsArg = -1
  /\ periods[1].roomName # periods[2].roomName
  /\ totalRooms = 2
  /\ Len(results) = 2

(***************************************************************************)
(* The rate limiter, for the one client of SpecLimiter.                    *)
(***************************************************************************)
ClientStore == IF req.headers.apiKey # "" THEN apiKeyLimits ELSE ipLimits

ClientId == Identifier(req.headers)

ClientLimit == maxRequests(limiterRev, req.headers.frontend = "true")

AllowedFromTo(a, b) ==
  Cardinality({i \in 1..Len(allowedAt) : a <= allowedAt[i] /\ allowedAt[i] <= b})

\* The requests let through in the interval of timeWindow milliseconds that
\* starts at a.
AllowedInIntervalFrom(a) == AllowedFromTo(a, a + timeWindow(limiterRev) - 1)

AllowedTimes == {allowedAt[i] : i \in 1..Len(allowedAt)}

\* C18 as stated: for one identifier sending no marked request, at most
\* maxRequests requests are allowed in any interval of length timeWindow.
C18_AnyInterval ==
  \A a \in AllowedTimes : AllowedInIntervalFrom(a) <= ClientLimit

\* C18 amended: at most maxRequests requests are allowed per window, that
\* is from the first request of a window (entry.timestamp) to timeWindow
\* milliseconds after it; an interval of length timeWindow that straddles
\* two windows can hold up to 2 * maxRequests - 1 allowed requests.
C18_PerWindow ==
  /\ ClientId \in DOMAIN ClientStore =>
       AllowedFromTo(ClientStore[ClientId].timestamp,
                     ClientStore[ClientId].timestamp + timeWindow(limiterRev))
         <= ClientLimit
  /\ \A a \in AllowedTimes : AllowedInIntervalFrom(a) <= 2 * ClientLimit - 1

C18_Witness ==
  /\ req.entry = "rateLimit"
  /\ \E a \in AllowedTimes : AllowedInIntervalFrom(a) = 2 * ClientLimit - 1
  /\ ClientStore[ClientId].count = ClientLimit

\* C19 as stated: a request of an identifier that arrives at any time
\* t >= entry.timestamp + timeWindow, the advertised reset time, starts a
\* new window: count becomes 1, timestamp becomes t, and it is allowed.
C19_ResetAtAdvertisedTime ==
  [][(/\ arrivals' = arrivals + 1
      /\ ClientId \in DOMAIN ClientStore
      /\ now >= ClientStore[ClientId].timestamp + timeWindow(limiterRev))
     => /\ ClientStore'[ClientId] = [count |-> 1, timestamp |-> now]
        /\ req'.trace = <<"rateLimit", "next">>]_vars

(***************************************************************************)
(* The handlers, for the one request of SpecHandler.                       *)
(***************************************************************************)
Finished == req.pc \in {"done", "hung"}

\* The outcome of a stage of the request, "" if the stage has not run.
Outcome(stage) ==
  IF \E i \in 1..Len(req.trace) : i % 2 = 1 /\ req.trace[i] = stage
  THEN req.trace[(CHOOSE i \in 1..Len(req.trace) :
                    i % 2 = 1 /\ req.trace[i] = stage) + 1]
  ELSE ""

CalledAggregator == Outcome("body") = "calculateDisrepairOverlap"

\* The room total by the documented precedence: the length of the rooms
\* list, else a positive totalRooms (the integer its text starts with, NaN
\* if it starts with none), else the number of distinct room names.
ResolvedTotal ==
  IF req.body.rooms # <<>> THEN Len(req.body.rooms[1])
  ELSE IF GreaterThanZero(req.body.totalRooms)
  THEN parseInt(req.body.totalRooms.text)
  ELSE Cardinality({req.body.periods[i].roomName :
                      i \in 1..Len(req.body.periods)})

RowsUseDenominator(total) ==
  /\ res.rows = results
  /\ \A r \in 1..Len(res.rows) :
       IsRoundedTenths(res.rows[r].percentageOfProperty,
                       100 * res.rows[r].roomCount, total)

\* C13 as stated: the handler resolves the total by the precedence rooms
\* list, positive totalRooms, distinct room names, and the resolved value
\* is the denominator of every percentageOfProperty of the response.
C13_ResolvedIsDenominator ==
  CalledAggregator =>
    /\ totalRoomsArg = ResolvedTotal
    /\ totalRooms = ResolvedTotal
    /\ RowsUseDenominator(ResolvedTotal)

\* C13 amended: the handler resolves the total by that precedence and
\* passes it to the aggregator; if it is positive it is the denominator of
\* every percentageOfProperty of the response; if it is 0 (an empty rooms
\* list, a totalRooms below 1) or NaN the denominator is the number of
\* distinct room names.
C13_ResolvedOrFallback ==
  CalledAggregator =>
    /\ totalRoomsArg = ResolvedTotal
    /\ ResolvedTotal > 0 => RowsUseDenominator(ResolvedTotal)
    /\ (ResolvedTotal = 0 \/ ResolvedTotal = NaN) =>
         RowsUseDenominator(Cardinality({req.body.periods[i].roomName :
                                           i \in 1..Len(req.body.periods)}))

C13_Witness ==
  /\ CalledAggregator
  /\ req.body.rooms # <<>>
  /\ GreaterThanZero(req.body.totalRooms)
  /\ Len(req.body.rooms[1]) > parseInt(req.body.totalRooms.text)
  /\ Len(res.rows) = 2
  /\ res.status = 200

\* C15 as stated: whichever entry point calls calculateDisrepairOverlap,
\* the rate limiter has let the request through and validateApiKey has
\* resolved the caller before the call.
C15_ChecksBeforeCall ==
  CalledAggregator =>
    /\ Outcome("rateLimit") = "next"
    /\ Outcome("validateApiKey") = "next"
    /\ req.client # ""

BodyFailsChecks ==
  \/ req.body = Undefined
  \/ req.body.periods = <<>>
  \/ \E i \in 1..Len(req.body.periods) :
       \/ req.body.periods[i] = NullPeriod
       \/ req.body.periods[i].roomName = ""
       \/ req.body.periods[i].startDate = <<>>
       \/ req.body.periods[i].endDate = <<>>

\* C16 as stated: a POST whose periods are missing or empty, or with a
\* period lacking a truthy roomName, startDate or endDate, is answered 400
\* with an error string and the aggregator is not called; any other POST
\* is answered 200 with the aggregator's rows.
C16_ValidationOr200 ==
  (req.entry \in {"main", "express"} /\ req.method = "POST" /\ Finished) =>
    IF BodyFailsChecks
    THEN res.status = 400 /\ res.error # "" /\ ~CalledAggregator
    ELSE res.status = 200 /\ CalledAggregator /\ res.rows = results

\* C17: api/calculate-disrepair.js looks at the method first; OPTIONS is
\* answered 200 and any other method but POST 405, and for them neither
\* middleware, nor the validation, nor the aggregator runs: the rate-limit
\* stores are as they were.
C17_MethodFirst ==
  [][(req.entry = "main" /\ req.trace = <<>>) =>
       /\ req'.trace = <<"method", req.method>>
       /\ req.method # "POST" =>
            /\ res'.status = IF req.method = "OPTIONS" THEN 200 ELSE 405
            /\ res'.sent = 1
            /\ req'.pc = "done"
            /\ req'.client = ""
            /\ UNCHANGED <<ipLimits, apiKeyLimits, callVars>>]_vars

C17_Witness ==
  /\ req.entry = "main"
  /\ req.method = "GET"
  /\ res.status = 405
  /\ req.pc = "done"
  /\ apiKeyLimits # <<>>

MarkerPresent == req.headers.frontend = "true"

KeyConfigured ==
  /\ env = "configured"
  /\ req.headers.apiKey \in DOMAIN ConfiguredKeys

KeyActive == ConfiguredKeys[req.headers.apiKey].active

\* C20 as stated: validateApiKey calls next, with req.client set, only for
\* a request with the marker header 'true' or with a key that is in the
\* configured mapping and not inactive; a request with no key, an unknown
\* key or an inactive key gets 401, next is not called and req.client is
\* not set.
C20_OnlyKnownCallers ==
  Outcome("validateApiKey") # "" =>
    /\ Outcome("validateApiKey") = "next" =>
         /\ req.client # ""
         /\ MarkerPresent \/ (KeyConfigured /\ KeyActive)
    /\ (~MarkerPresent /\ ~(KeyConfigured /\ KeyActive)) =>
         /\ Outcome("validateApiKey") = "401"
         /\ res.status = 401
         /\ req.client = ""

(***************************************************************************)
(* formatDateForProcessing, for the one string of SpecFormat.              *)
(***************************************************************************)
Formatted == pc = "return" /\ dateStr # <<>>

AllDigits(s) == \A i \in 1..Len(s) : IsDigit(s[i])

\* day/month/year: one or two digits, one or two digits, four digits.
IsDayMonthYear(s) ==
  /\ Len(split(s)) = 3
  /\ \A k \in 1..3 : AllDigits(split(s)[k])
  /\ Len(split(s)[1]) \in {1, 2}
  /\ Len(split(s)[2]) \in {1, 2}
  /\ Len(split(s)[3]) = 4

ZeroPadded(s) == IF Len(s) = 1 THEN <<"0">> \o s ELSE s

\* C21 as stated: a day/month/year string becomes year-month-day with day
\* and month padded to two digits, a year-month-day string is returned
\* unchanged, any other string is returned unmodified, and formatting
\* twice gives what formatting once gives.
C21_FormatContract ==
  Formatted =>
    /\ IsDayMonthYear(dateStr) =>
         formatted = split(dateStr)[3] \o <<"-">>
                       \o ZeroPadded(split(dateStr)[2]) \o <<"-">>
                       \o ZeroPadded(split(dateStr)[1])
    /\ IsIsoForm(dateStr) => formatted = dateStr
    /\ (~IsDayMonthYear(dateStr) /\ ~IsIsoForm(dateStr)) =>
         formatted = dateStr
    /\ reformatted = formatted

\* C22: a request to api/calculate-disrepair.js gets exactly one response
\* on every path (200 preflight, 405, 429, 401, 400, 200 result, 500), and
\* after a denial written by the rate limiter or by validateApiKey the
\* handler writes nothing more and does not call calculateDisrepairOverlap.
C22_OneResponse ==
  req.entry = "main" =>
    /\ res.sent <= 1
    /\ Finished =>
         /\ res.sent = 1
         /\ res.status \in {200, 405, 429, 401, 400, 500}
    /\ ~Finished =>
         /\ res.sent = 0
         /\ req.pc \in {"method", "rateLimit", "validateApiKey", "body"}
    /\ (Outcome("rateLimit") = "429" \/ Outcome("validateApiKey") = "401") =>
         /\ Finished
         /\ res.status \in {429, 401}
         /\ Outcome("body") = ""
         /\ results = <<>>

C22_Witness ==
  /\ req.entry = "main"
  /\ Outcome("validateApiKey") = "401"
  /\ res.sent = 1
  /\ ~BodyFailsChecks
  /\ req.pc = "hung"

\* C23 as stated: the promise of applyMiddleware settles for every
\* invocation of the middleware, also when the middleware answers 429 or
\* 401, so the handler is never left waiting.
C23_PromiseSettles ==
  (req.entry = "main" /\ req.promise # "") =>
    /\ req.promise \in {"resolved", "rejected"}
    /\ req.pc # "hung"

\* C24 as stated: a POST of the browser client (headers from
\* getApiHeaders, no X-API-Key) that the rate limiter lets through is
\* taken by validateApiKey for a first-party request: it gets the frontend
\* identity and reaches the aggregator.
C24_BrowserIsFirstParty ==
  (/\ req.entry = "main"
   /\ req.method = "POST"
   /\ req.headers = getApiHeaders("10.0.0.1")
   /\ authRev = 1
   /\ ~BodyFailsChecks
   /\ Outcome("rateLimit") = "next"
   /\ Finished) =>
    /\ Outcome("validateApiKey") = "next"
    /\ req.client = "Frontend User"
    /\ CalledAggregator

\* The store the request's identifier is counted in, and the other one.
OwnStore(ipL, keyL) == IF req.headers.apiKey # "" THEN keyL ELSE ipL

OtherStore(ipL, keyL) == IF req.headers.apiKey # "" THEN ipL ELSE keyL

\* C25: a call of rateLimit changes the entry of the request's identifier
\* and nothing else: every other entry of that store is as it was, and the
\* store of the other kind (addresses for a request with a key, keys for
\* one without) is as it was.
C25_OnlyOwnEntry ==
  [][arrivals' = arrivals + 1 =>
       /\ OtherStore(ipLimits', apiKeyLimits')
            = OtherStore(ipLimits, apiKeyLimits)
       /\ DOMAIN OwnStore(ipLimits', apiKeyLimits')
            = DOMAIN OwnStore(ipLimits, apiKeyLimits)
                \cup {Identifier(req.headers)}
       /\ \A i \in DOMAIN OwnStore(ipLimits, apiKeyLimits)
                     \ {Identifier(req.headers)} :
            OwnStore(ipLimits', apiKeyLimits')[i]
              = OwnStore(ipLimits, apiKeyLimits)[i]]_vars

\* The client's entry has been written next to the entries of others.
C25_Witness ==
  /\ arrivals > 1
  /\ Identifier(req.headers) \in DOMAIN OwnStore(ipLimits, apiKeyLimits)
  /\ OwnStore(ipLimits, apiKeyLimits)[Identifier(req.headers)].count > 1
  /\ DOMAIN OwnStore(ipLimits, apiKeyLimits) # {Identifier(req.headers)}
  /\ OtherStore(ipLimits, apiKeyLimits) # <<>>

\* Room-days of the segments, of the timeline and of the input intervals.
SegmentRoomDays ==
  SumOver([i \in 1..Len(groupedPeriods) |->
             groupedPeriods[i].roomCount * SegmentDays(groupedPeriods[i])],
          Len(groupedPeriods))

TimelineRoomDays ==
  SumOver([i \in 1..Len(timeline) |-> timeline[i].roomCount], Len(timeline))

IntervalRoomDays ==
  SumOver([j \in 1..Len(Intervals) |->
             (Intervals[j].endDate - Intervals[j].startDate) + 1],
          Len(Intervals))

\* C26: for a non-empty input whose intervals all have startDate <=
\* endDate, the sum over the segments of roomCount * days equals the sum
\* over the input intervals of their inclusive lengths (and the sum of the
\* day counts of the timeline).
C26_RoomDaysConserved ==
  (Returned /\ ValidInput) =>
    /\ SegmentRoomDays = IntervalRoomDays
    /\ TimelineRoomDays = IntervalRoomDays

\* Two intervals of the same room that overlap, with segments of counts 1
\* and 2.
C26_Witness ==
  /\ Returned
  /\ ValidInput
  /\ periods[2].roomName = periods[1].roomName
  /\ \E i, j \in 1..Len(groupedPeriods) :
       groupedPeriods[i].roomCount = 1 /\ groupedPeriods[j].roomCount = 2
  /\ SegmentRoomDays > Len(timeline)

\* The degenerate inputs: no period, a date that is no date, or every
\* start after every end.
Unparseable(iv) == iv.startDate = NaN \/ iv.endDate = NaN

Degenerate ==
  \/ periods = <<>>
  \/ \E j \in 1..Len(Intervals) : Unparseable(Intervals[j])
  \/ \A i, j \in 1..Len(Intervals) :
       Intervals[i].startDate > Intervals[j].endDate

\* C27: a call with an empty list, with a list holding an unparseable
\* startDate or endDate, or with a list whose earliest start is after its
\* latest end returns: the timeline is empty and the result is the empty
\* list, whatever the other periods of the list are.
C27_DegenerateGivesEmpty ==
  (pc = "return" /\ Degenerate) =>
    /\ timeline = <<>>
    /\ groupedPeriods = <<>>
    /\ results = <<>>

\* A well-formed period next to one whose start is no date.
C27_Witness ==
  /\ pc = "return"
  /\ Len(Intervals) = 2
  /\ Ordered(Intervals[1])
  /\ Intervals[2].startDate = NaN
  /\ Intervals[2].endDate # NaN
  /\ results = <<>>

\* The supplied values that cannot serve as a total.
NoUsableTotal ==
  \/ req.body.rooms = << <<>> >>
  \/ /\ req.body.rooms = <<>>
     /\ \/ ~GreaterThanZero(req.body.totalRooms)
        \/ parseInt(req.body.totalRooms.text) = 0
        \/ parseInt(req.body.totalRooms.text) = NaN

\* C28: for every request that passes the validation of the handler, the
\* room total the percentages are divided by is an integer of at least 1;
\* with an empty rooms list, or without one and a totalRooms that is zero,
\* negative, below 1 or no number, it is the number of distinct room names.
C28_DenominatorAtLeastOne ==
  CalledAggregator =>
    /\ totalRooms \in Nat
    /\ totalRooms >= 1
    /\ RowsUseDenominator(totalRooms)
    /\ NoUsableTotal =>
         totalRooms = Cardinality({req.body.periods[i].roomName :
                                     i \in 1..Len(req.body.periods)})

\* A 200 with rows for totalRooms 0.5 and for a string without a number.
C28_Witness ==
  /\ CalledAggregator
  /\ req.body.rooms = <<>>
  /\ req.body.totalRooms \in {JsonNumber(<<"0", ".", "5">>),
                              JsonString(<<".", "5">>)}
  /\ totalRoomsArg <= 0
  /\ totalRooms >= 1
  /\ res.status = 200
  /\ res.rows # <<>>

\* The entry of the request's identifier in its store: count 0 without one.
OwnCount(ipL, keyL) ==
  IF Identifier(req.headers) \in DOMAIN OwnStore(ipL, keyL)
  THEN OwnStore(ipL, keyL)[Identifier(req.headers)].count
  ELSE 0

\* The limiter has counted the request: one more than before, or a new
\* window with count 1.
CountedByStep ==
  /\ Identifier(req.headers) \in DOMAIN OwnStore(ipLimits', apiKeyLimits')
  /\ \/ OwnCount(ipLimits', apiKeyLimits')
          = OwnCount(ipLimits, apiKeyLimits) + 1
     \/ OwnStore(ipLimits', apiKeyLimits')[Identifier(req.headers)]
          = [count |-> 1, timestamp |-> now]

\* The step in which the rate limiter of the main handler lets a POST on.
LimiterPasses ==
  /\ req.entry = "main"
  /\ req.method = "POST"
  /\ req.pc = "rateLimit"
  /\ req'.pc = StageAfter("main", "rateLimit")

\* The step in which the main handler answers a POST with 400 or 401.
Refuses ==
  /\ req.entry = "main"
  /\ req.method = "POST"
  /\ res.status = 0
  /\ res'.status \in {400, 401}

\* C29 as stated: in the main handler the rate limiter runs before
\* authentication and validation, so a POST that ends in 401 or 400 has
\* been counted against its identifier.
C29_CountedBeforeRefusal ==
  [][Refuses => /\ Outcome("rateLimit") = "next"
                /\ OwnCount(ipLimits, apiKeyLimits) >= 1]_vars

\* The first revision of rateLimit returns before counting for a request
\* with the first-party marker.
SkippedByLimiter == limiterRev = 1 /\ req.headers.frontend = "true"

\* C29 amended: the rate limiter runs before authentication and
\* validation, and a POST that ends in 401 or 400 has been counted against
\* its identifier unless it carries the first-party marker and the limiter
\* is the revision that skips such requests.
C29_CountedUnlessSkipped ==
  [][/\ (LimiterPasses /\ ~SkippedByLimiter) => CountedByStep
     /\ (LimiterPasses /\ SkippedByLimiter) =>
          UNCHANGED <<ipLimits, apiKeyLimits>>
     /\ Refuses => /\ Outcome("rateLimit") = "next"
                   /\ ~SkippedByLimiter =>
                        OwnCount(ipLimits, apiKeyLimits) >= 1]_vars

\* A 401 after the identifier's count went from 1 to 2.
C29_Witness ==
  /\ req.entry = "main"
  /\ req.method = "POST"
  /\ res.status = 401
  /\ Outcome("rateLimit") = "next"
  /\ OwnCount(ipLimits, apiKeyLimits) = 2

\* The entry of the request's identifier.
OwnEntry(ipL, keyL) == OwnStore(ipL, keyL)[Identifier(req.headers)]

HasEntry(ipL, keyL) == Identifier(req.headers) \in DOMAIN OwnStore(ipL, keyL)

\* C30: a denied request adds 1 to the count of its identifier and leaves
\* the timestamp of the window as it was; a request that arrives more than
\* timeWindow after the timestamp is allowed and starts a new window at
\* its own time with count 1.
C30_FixedWindow ==
  [][arrivals' = arrivals + 1 =>
       /\ res'.status = 429 =>
            /\ HasEntry(ipLimits, apiKeyLimits)
            /\ OwnEntry(ipLimits', apiKeyLimits')
                 = [count |-> OwnEntry(ipLimits, apiKeyLimits).count + 1,
                    timestamp |->
                      OwnEntry(ipLimits, apiKeyLimits).timestamp]
       /\ (/\ HasEntry(ipLimits, apiKeyLimits)
           /\ now - OwnEntry(ipLimits, apiKeyLimits).timestamp
                > timeWindow(limiterRev)) =>
            /\ res'.status # 429
            /\ Outcome("rateLimit")' = "next"
            /\ OwnEntry(ipLimits', apiKeyLimits')
                 = [count |-> 1, timestamp |-> now]]_vars

\* A new window has started after at least two denied requests, some of
\* them later than the window's first request.
C30_Witness ==
  /\ arrivals >= maxRequests(limiterRev, FALSE) + 3
  /\ ticks = MaxTicks
  /\ now > timeWindow(limiterRev)
  /\ HasEntry(ipLimits, apiKeyLimits)
  /\ OwnEntry(ipLimits, apiKeyLimits) = [count |-> 1, timestamp |-> now]
  /\ res.status = 0
  /\ Len(allowedAt) = maxRequests(limiterRev, FALSE) + 1

=============================================================================
